---- MODULE Spec2Model ----
(***************************************************************************)
(* Model of the upload / feed / delete handlers of app/app.py.             *)
(*                                                                         *)
(* Every request runs in a slot of Reqs.  A slot steps through the         *)
(* handler's code; slots interleave at every step, which covers both the   *)
(* awaits of one event loop and several worker processes.  The Post table  *)
(* and the temporary directory are the shared state.                       *)
(*                                                                         *)
(* app/db.py (Post, User, get_session) and app/images.py are not among the *)
(* sources: the Post row's columns and defaults follow the data model of   *)
(* the specification, and the session calls follow SQLAlchemy's contract.  *)
(***************************************************************************)
EXTENDS Integers, Sequences, FiniteSets, TLC

VARIABLES posts, nextId, clock, fs, started, req

vars == <<posts, nextId, clock, fs, started, req>>

(* ------------------------------ bounds --------------------------------- *)

\* upload requests admitted in one behaviour (caps the post ids and the clock)
MaxUploads == 2

(* ------------------------------ domains -------------------------------- *)

\* request slots: requests handled in parallel
Reqs == {"r1", "r2"}

\* ids of the authenticated active users (current_active_user resolved them)
Users == {1, 2}

Email(u) == <<"user", u, "@example.com">>

\* names tempfile.NamedTemporaryFile may generate
TempNames == {"tmpA", "tmpB"}

NoPath == "None"

Captions == {"hi"}

VideoPrefix == <<"v", "i", "d", "e", "o", "/">>

\* file.content_type of the uploaded part; has_type FALSE is a part sent
\* without a Content-Type header, for which UploadFile.content_type is None
ContentTypes ==
    { [has_type |-> TRUE,  text |-> <<"v", "i", "d", "e", "o", "/", "m", "p", "4">>],
      [has_type |-> TRUE,  text |-> <<"i", "m", "a", "g", "e", "/", "p", "n", "g">>],
      [has_type |-> TRUE,  text |-> <<"v", "i", "d", "e", "o">>],
      [has_type |-> FALSE, text |-> <<>>] }

\* http_status_code values of the object store's answer
StoreStatuses == {200, 500}

(* ------------------------------ UUIDs ---------------------------------- *)

\* A UUID is modelled by a number; its text has several accepted spellings.
UUIDForms == {"canonical", "upper"}

PostIdStrings ==
    { [form |-> f, hex |-> n] : f \in UUIDForms, n \in 1..MaxUploads }
        \cup { [form |-> "garbage", hex |-> 0] }

\* str(uuid): always the canonical spelling
StrUUID(n) == [form |-> "canonical", hex |-> n]

\* uuid.UUID(text): raises ValueError on a malformed text
UUIDParses(s) == s.form \in UUIDForms

UUIDValue(s) == s.hex

(* ------------------------------ records -------------------------------- *)

NoPost == [id |-> 0]

NoFile == [has_type |-> FALSE, text |-> <<"None">>]

NoResponse == [status |-> 0]

\* A slot holds the handler's position and the locals a later line still
\* reads; a local no later line reads is back at its empty value.
Idle ==
    [kind |-> "idle", pc |-> "idle", user |-> 0, content_type |-> NoFile,
     caption |-> "None", temp_file_path |-> NoPath, post |-> NoPost,
     response |-> NoResponse]

(* --------------------------- create_post ------------------------------- *)

\* str.startswith
StartsWith(s, prefix) ==
    /\ Len(s) >= Len(prefix)
    /\ SubSeq(s, 1, Len(prefix)) = prefix

\* "video" if file.content_type.startswith("video/") else "image"
FileType(content_type) ==
    IF StartsWith(content_type, VideoPrefix) THEN "video" ELSE "image"

\* faulty variant: any answer of the store counts as success
StoreAcceptedAlways(status) == status = status

\* upload_file_result.response_metadata.http_status_code == 200
StoreAccepted(status) == status = 200

\* NamedTemporaryFile(delete=False) creates the file exclusively: an unused name
FreshTempNames(files) == TempNames \ DOMAIN files

\* faulty variant: the cleanup is left out
UnlinkSkipped(files, path) == files

\* finally: if temp_file_path and os.path.exists(temp_file_path): os.unlink(...)
\* (POSIX unlink: the name goes even while a handle on the file is open)
Unlink(files, path) ==
    IF path # NoPath /\ path \in DOMAIN files
    THEN [n \in DOMAIN files \ {path} |-> files[n]]
    ELSE files

\* except Exception as e: raise HTTPException(status_code=500, detail=...)
UploadFailure(e) == [status |-> 500, detail |-> <<"File upload failed", e>>]

\* the handler returns the Post; the route declares no status code
UploadSuccess(post) == [status |-> 200, body |-> post]

\* the answer of the store: its status, and the url and name it gave the object
StoreResult(status) ==
    [http_status_code |-> status, url |-> "https://ik/cat.png", name |-> "cat.png"]

\* Post(user_id=..., caption=..., url=..., file_type=..., file_name=...)
NewPost(user, caption, result, content_type) ==
    [id |-> 0, user_id |-> user, caption |-> caption, url |-> result.url,
     file_type |-> FileType(content_type), file_name |-> result.name,
     created_at |-> 0, updated_at |-> 0]

\* the row the flush writes: the defaults of id and the timestamps filled in
Inserted(post, id, now) ==
    [post EXCEPT !.id = id, !.created_at = now, !.updated_at = now]

\* the except clause of line 103: the response is the failure, and only the
\* finally block is left to run
Raise(q, e) ==
    [Idle EXCEPT !.kind = q.kind, !.pc = "finally",
                 !.temp_file_path = q.temp_file_path,
                 !.response = UploadFailure(e)]

\* lines 62-75: the request arrives, the temporary file is created and the
\* upload is copied into it
StageAs(r, u, ct, c) ==
    /\ req[r].pc = "idle"
    /\ started < MaxUploads
    /\ started' = started + 1
    /\ LET begun == [Idle EXCEPT !.kind = "upload", !.user = u,
                                   !.content_type = ct, !.caption = c]
         IN \/ \* NamedTemporaryFile raises: no file, temp_file_path stays None
               /\ fs' = fs
               /\ req' = [req EXCEPT ![r] = Raise(begun, "create")]
            \/ \E n \in FreshTempNames(fs) :
                 /\ fs' = [m \in DOMAIN fs \cup {n} |-> IF m = n THEN r ELSE fs[m]]
                 /\ \/ req' = [req EXCEPT ![r] =
                         [begun EXCEPT !.pc = "transmit", !.temp_file_path = n]]
                    \/ \* shutil.copyfileobj raises after the file exists
                       req' = [req EXCEPT ![r] =
                         Raise([begun EXCEPT !.temp_file_path = n], "copy")]
    /\ UNCHANGED <<posts, nextId, clock>>

Stage(r) == \E u \in Users, ct \in ContentTypes, c \in Captions : StageAs(r, u, ct, c)

\* lines 86-96 and 100-101: the status check, Post(...) and session.add
CheckStatus(q, result) ==
    IF StoreAccepted(result.http_status_code)
    THEN IF q.content_type.has_type
         THEN [Idle EXCEPT !.kind = q.kind, !.pc = "commit",
                           !.temp_file_path = q.temp_file_path,
                           !.post = NewPost(q.user, q.caption, result,
                                            q.content_type.text)]
         ELSE \* None.startswith: AttributeError
              Raise(q, "AttributeError")
    ELSE \* raise HTTPException(500), caught by the except clause of line 103
         Raise(q, "500: File upload failed")

\* lines 77-96: imagekit.upload_file(...), then the status check on its answer
TransmitAs(r, s) ==
    /\ req[r].pc = "transmit"
    /\ req' = [req EXCEPT ![r] = CheckStatus(req[r], StoreResult(s))]
    /\ UNCHANGED <<posts, nextId, clock, fs, started>>

\* lines 77-84 when imagekit.upload_file raises
TransmitRaises(r) ==
    /\ req[r].pc = "transmit"
    /\ req' = [req EXCEPT ![r] = Raise(req[r], "transmit")]
    /\ UNCHANGED <<posts, nextId, clock, fs, started>>

Transmit(r) == \E s \in StoreStatuses : TransmitAs(r, s)

\* line 97: await session.commit()
Commit(r) ==
    /\ req[r].pc = "commit"
    /\ \E now \in {clock, clock + 1} :
         /\ clock' = now
         /\ LET row == Inserted(req[r].post, nextId, now) IN
              /\ posts' = posts \cup {row}
              /\ req' = [req EXCEPT ![r].pc = "refresh", ![r].post = row]
    /\ nextId' = nextId + 1
    /\ UNCHANGED <<fs, started>>

\* lines 98-99: await session.refresh(post); return post
RefreshReturn(r) ==
    /\ req[r].pc = "refresh"
    /\ IF \E p \in posts : p.id = req[r].post.id
       THEN LET row == CHOOSE p \in posts : p.id = req[r].post.id IN
            req' = [req EXCEPT ![r].pc = "finally", ![r].post = NoPost,
                               ![r].response = UploadSuccess(row)]
       ELSE \* the row is gone: refresh raises InvalidRequestError
            req' = [req EXCEPT ![r] = Raise(req[r], "InvalidRequestError")]
    /\ UNCHANGED <<posts, nextId, clock, fs, started>>

\* lines 105-108: the finally block, then the response leaves the handler
Finally(r) ==
    /\ req[r].pc = "finally"
    /\ fs' = Unlink(fs, req[r].temp_file_path)
    /\ req' = [req EXCEPT ![r].pc = "done", ![r].temp_file_path = NoPath]
    /\ UNCHANGED <<posts, nextId, clock, started>>

(* ----------------------------- get_feeds ------------------------------- *)

RECURSIVE OrderByAsc(_)
\* faulty variant: oldest first
OrderByAsc(rows) ==
    IF rows = {} THEN {<<>>}
    ELSE UNION { { <<p>> \o rest : rest \in OrderByAsc(rows \ {p}) } :
                 p \in { x \in rows : \A y \in rows : x.created_at <= y.created_at } }

RECURSIVE OrderByDesc(_)
\* select(Post).order_by(Post.created_at.desc()): every order the database
\* may return, rows of equal creation time in any order
OrderByDesc(rows) ==
    IF rows = {} THEN {<<>>}
    ELSE UNION { { <<p>> \o rest : rest \in OrderByDesc(rows \ {p}) } :
                 p \in { x \in rows : \A y \in rows : x.created_at >= y.created_at } }

\* faulty variant: the post's own id compared with the caller's
IsOwnerById(post, user) == post.id = user

\* post.user_id == user.id
IsOwner(post, user) == post.user_id = user

\* lines 120-133: one entry of the response
PostDetails(post, user) ==
    [id |-> StrUUID(post.id), user_id |-> StrUUID(post.user_id), caption |-> post.caption,
     url |-> post.url, file_type |-> post.file_type, file_name |-> post.file_name,
     created_at |-> post.created_at, updated_at |-> post.updated_at,
     is_owner |-> IsOwner(post, user), email |-> Email(user)]

\* lines 116-134: every response the handler may give on this table
get_feeds(rows, user) ==
    { [status |-> 200,
       posts |-> [i \in 1..Len(total_posts) |-> PostDetails(total_posts[i], user)]] :
      total_posts \in OrderByDesc(rows) }

\* GET /feeds by user u
GetFeedsAs(r, u) ==
    /\ req[r].pc = "idle"
    /\ \E resp \in get_feeds(posts, u) :
         req' = [req EXCEPT ![r] =
             [Idle EXCEPT !.kind = "feed", !.pc = "done", !.response = resp]]
    /\ UNCHANGED <<posts, nextId, clock, fs, started>>

GetFeeds(r) == \E u \in Users : GetFeedsAs(r, u)

(* -------------------------- delete_post_by_id -------------------------- *)

\* except Exception as e: raise HTTPException(status_code=500, detail=...)
DeleteFailure(e) == [status |-> 500, detail |-> <<"Error deleting post", e>>]

\* return {"success": True, "message": "Post deleted", "post_id": str(post.id)}
DeleteSuccess(post) ==
    [status |-> 200, success |-> TRUE, message |-> "Post deleted",
     post_id |-> StrUUID(post.id)]

\* faulty variant: the ownership check is dropped
NotOwnerNever(post, user) == post.user_id # post.user_id

\* if post.user_id != user.id
NotOwner(post, user) == post.user_id # user

\* faulty variant: every row of the owner goes
DeleteRowsOfOwner(rows, post) == { p \in rows : p.user_id # post.user_id }

\* session.delete(post) and the DELETE the commit emits, by primary key
DeleteRow(rows, post) == { p \in rows : p.id # post.id }

\* lines 143-153: parse, select, and the two checks; their HTTPExceptions are
\* raised inside the try block and reach the except clause of line 158
DeleteSelectAs(r, u, s) ==
    /\ req[r].pc = "idle"
    /\ LET begun == [Idle EXCEPT !.kind = "delete"]
             found == { p \in posts : p.id = UUIDValue(s) }
         IN IF ~UUIDParses(s)
            THEN req' = [req EXCEPT ![r] =
                    [begun EXCEPT !.pc = "done",
                                  !.response = DeleteFailure("ValueError")]]
            ELSE IF found = {}
            THEN req' = [req EXCEPT ![r] =
                    [begun EXCEPT !.pc = "done",
                                  !.response = DeleteFailure("404: Post not found")]]
            ELSE LET post == CHOOSE p \in found : TRUE IN
                 IF NotOwner(post, u)
                 THEN req' = [req EXCEPT ![r] =
                         [begun EXCEPT !.pc = "done",
                             !.response = DeleteFailure(
                                 "403: Not authorized to delete this post")]]
                 ELSE req' = [req EXCEPT ![r] =
                         [begun EXCEPT !.pc = "delete", !.user = u,
                                       !.post = post]]
    /\ UNCHANGED <<posts, nextId, clock, fs, started>>

DeleteSelect(r) == \E u \in Users, s \in PostIdStrings : DeleteSelectAs(r, u, s)

\* lines 155-157: session.delete, commit, and the success body
DeleteCommit(r) ==
    /\ req[r].pc = "delete"
    /\ posts' = DeleteRow(posts, req[r].post)
    /\ req' = [req EXCEPT ![r].pc = "done", ![r].user = 0, ![r].post = NoPost,
                          ![r].response = DeleteSuccess(req[r].post)]
    /\ UNCHANGED <<nextId, clock, fs, started>>

(* ------------------------------ responses ------------------------------ *)

\* the response is sent and the slot takes the next request
Respond(r) ==
    /\ req[r].pc = "done"
    /\ req' = [req EXCEPT ![r] = Idle]
    /\ UNCHANGED <<posts, nextId, clock, fs, started>>

(* ---------------------------- specification ---------------------------- *)

Init ==
    /\ posts = {}
    /\ nextId = 1
    /\ clock = 0
    /\ started = 0
    /\ fs = <<>>
    /\ req = [r \in Reqs |-> Idle]

\* A finished handler's response is sent before any other request moves:
\* sending it reads and writes nothing shared, so every interleaving of the
\* handlers' own steps is still covered.
Pending == \E q \in Reqs : req[q].pc = "done"

Next ==
    \E r \in Reqs :
        \/ Respond(r)
        \/ ~Pending /\ Stage(r)
        \/ ~Pending /\ Transmit(r)
        \/ ~Pending /\ TransmitRaises(r)
        \/ ~Pending /\ Commit(r)
        \/ ~Pending /\ RefreshReturn(r)
        \/ ~Pending /\ Finally(r)
        \/ ~Pending /\ GetFeeds(r)
        \/ ~Pending /\ DeleteSelect(r)
        \/ ~Pending /\ DeleteCommit(r)

Spec == Init /\ [][Next]_vars

(* ------------------------------- claims -------------------------------- *)

\* the slot whose request took the step
Acts(r) == req'[r] # req[r]

\* the response is the failure of an except clause
Failed(q) == "detail" \in DOMAIN q.response

Ids(rows) == { p.id : p \in rows }

\* the ids a feed response lists
FeedIds(resp) == { resp.posts[i].id : i \in 1..Len(resp.posts) }

\* a delete request arrived in slot r and ran up to its select
DeleteArrives(r) == Acts(r) /\ req[r].pc = "idle" /\ req'[r].kind = "delete"

\* the accepted spellings of a UUID
Spellings(n) == { [form |-> f, hex |-> n] : f \in UUIDForms }

\* C1: DELETE of a well-formed UUID that matches no Post row answers 404
\* and leaves the Post rows as they were.
C1_DeleteMissingIsNotFound ==
    [][\A r \in Reqs :
         DeleteArrives(r) =>
           \A n \in (1..MaxUploads) \ Ids(posts) :
             \A s \in Spellings(n), u \in Users :
               DeleteSelectAs(r, u, s)
               => (req'[r].response.status = 404 /\ posts' = posts)]_vars

\* C2: DELETE by a user who does not own the existing post answers 403, and
\* the post stays in the table and in every user's feed.
C2_DeleteByOtherIsForbidden ==
    [][\A r \in Reqs :
         DeleteArrives(r) =>
           \A p \in posts :
             \A s \in Spellings(p.id), u \in Users \ {p.user_id} :
               DeleteSelectAs(r, u, s)
               => (/\ req'[r].response.status = 403
                   /\ p \in posts'
                   /\ \A v \in Users : \A resp \in get_feeds(posts', v) :
                        StrUUID(p.id) \in FeedIds(resp))]_vars

\* C3: DELETE by the owner of an existing post goes on to delete exactly that
\* row and answers success with the canonical text of its id; after the
\* delete no user's feed lists the post, every other post is still listed,
\* and an id that has left the table never returns to it.
C3_OwnerDeleteRemovesPost ==
    [][/\ \A r \in Reqs :
            DeleteArrives(r) =>
              \A p \in posts :
                \A s \in Spellings(p.id) :
                  DeleteSelectAs(r, p.user_id, s)
                  => (req'[r].pc = "delete" /\ req'[r].post = p)
       /\ \A r \in Reqs :
            (Acts(r) /\ DeleteCommit(r)) =>
              LET p == req[r].post IN
              /\ posts' = posts \ {p}
              /\ req'[r].response.status = 200
              /\ req'[r].response.success
              /\ req'[r].response.post_id = [form |-> "canonical", hex |-> p.id]
              /\ \A v \in Users : \A resp \in get_feeds(posts', v) :
                   /\ [form |-> "canonical", hex |-> p.id] \notin FeedIds(resp)
                   /\ \A q \in posts \ {p} :
                        [form |-> "canonical", hex |-> q.id] \in FeedIds(resp)
       /\ \A i \in 1..(nextId - 1) :
            i \notin Ids(posts) => i \notin Ids(posts')]_vars

\* an owner's delete has answered while another post is still in the table
C3_Witness ==
    \E r \in Reqs :
        /\ req[r].kind = "delete"
        /\ req[r].pc = "done"
        /\ req[r].response.status = 200
        /\ req[r].response.post_id.hex \notin Ids(posts)
        /\ posts # {}

\* the content-type rule: "video" for a content type that starts with
\* "video/", "image" for every other upload
ExpectedFileType(content_type) ==
    IF /\ content_type.has_type
       /\ Len(content_type.text) >= 6
       /\ \A i \in 1..6 : content_type.text[i] = VideoPrefix[i]
    THEN "video" ELSE "image"

\* what the commit of slot r's Post does to the table and to every feed
CommitAddsOneEntry(r) ==
    LET row == req'[r].post IN
    /\ row.id \notin Ids(posts)
    /\ posts' = posts \cup {row}
    /\ row.user_id = req[r].post.user_id
    /\ row.file_type = req[r].post.file_type
    /\ \A v \in Users :
         \A before \in get_feeds(posts, v), after \in get_feeds(posts', v) :
           /\ Len(after.posts) = Len(before.posts) + 1
           /\ FeedIds(after) = FeedIds(before) \cup {StrUUID(row.id)}
           /\ \A i \in 1..Len(after.posts) :
                after.posts[i].id = StrUUID(row.id)
                => /\ after.posts[i].user_id = StrUUID(req[r].post.user_id)
                   /\ after.posts[i].file_type = req[r].post.file_type

\* C4: every valid upload (file present, caption given, store answers 200)
\* builds a Post owned by the uploader whose file_type follows the
\* content-type rule, and its commit adds exactly that one entry to every
\* user's feed.
C4_ValidUploadAddsOneEntry ==
    [][\A r \in Reqs :
         /\ (Acts(r) /\ TransmitAs(r, 200))
            => /\ req'[r].pc = "commit"
               /\ req'[r].post.user_id = req[r].user
               /\ req'[r].post.caption = req[r].caption
               /\ req'[r].post.file_type = ExpectedFileType(req[r].content_type)
         /\ (Acts(r) /\ Commit(r)) => CommitAddsOneEntry(r)]_vars

\* C4 holds of the uploads whose part declares a content type
DeclaredTypeUploadAddsOneEntry ==
    [][\A r \in Reqs :
         /\ (Acts(r) /\ req[r].content_type.has_type /\ TransmitAs(r, 200))
            => /\ req'[r].pc = "commit"
               /\ req'[r].post.user_id = req[r].user
               /\ req'[r].post.caption = req[r].caption
               /\ req'[r].post.file_type = ExpectedFileType(req[r].content_type)
         /\ (Acts(r) /\ Commit(r)) => CommitAddsOneEntry(r)]_vars

\* C5: an upload that succeeds answers 201 with the created Post; an upload
\* that fails answers 500.
C5_UploadStatus ==
    \A r \in Reqs :
        (req[r].kind = "upload" /\ req[r].pc = "done")
        => IF Failed(req[r])
           THEN req[r].response.status = 500
           ELSE req[r].response.status = 201 /\ "body" \in DOMAIN req[r].response

\* the failures of staging, of transmission, and of a non-success store status
StoreOrStagingFailures ==
    { <<"File upload failed", e>> :
      e \in {"create", "copy", "transmit", "500: File upload failed"} }

\* C6: when the store answers a non-success status, or staging or
\* transmission raises, the upload answers 500 and the request adds no Post
\* row: no step of it changes the table.
C6_FailedUploadCreatesNoPost ==
    [][\A r \in Reqs :
         /\ \A s \in StoreStatuses \ {200} :
              (Acts(r) /\ TransmitAs(r, s))
              => /\ req'[r].response.status = 500
                 /\ req'[r].response.detail \in StoreOrStagingFailures
         /\ (Acts(r) /\ req[r].pc \in {"idle", "transmit"} /\ req'[r].pc = "finally")
            => /\ req'[r].response.status = 500
               /\ req'[r].post = NoPost
               /\ posts' = posts
         /\ (/\ Acts(r)
             /\ req[r].kind = "upload"
             /\ Failed(req[r])
             /\ req[r].response.detail \in StoreOrStagingFailures)
            => /\ posts' = posts
               /\ req[r].response.status = 500
               /\ req'[r].pc \in {"done", "idle"}
               /\ req'[r].pc = "done" => req'[r].response = req[r].response]_vars

\* an upload the store refused has answered while the table holds a post
C6_Witness ==
    /\ \E r \in Reqs :
         /\ req[r].kind = "upload" /\ req[r].pc = "done" /\ Failed(req[r])
         /\ req[r].response.detail = <<"File upload failed", "500: File upload failed">>
    /\ posts # {}

\* C7: once an upload request has completed, the temporary file it created
\* is gone, whatever the outcome; and a temporary file is removed or replaced
\* only by the finally block of the request that created it.
C7_TempFileRemoved ==
    [][/\ \A r \in Reqs :
            req'[r].pc \in {"idle", "done"}
            => \A n \in DOMAIN fs' : fs'[n] # r
       /\ \A n \in DOMAIN fs :
            (n \notin DOMAIN fs' \/ fs'[n] # fs[n])
            => /\ Finally(fs[n])
               /\ req[fs[n]].temp_file_path = n]_vars

\* a failed upload has completed while another upload's temporary file exists
C7_Witness ==
    \E r \in Reqs :
        /\ req[r].kind = "upload"
        /\ req[r].pc = "done"
        /\ Failed(req[r])
        /\ req[r].response.detail # <<"File upload failed", "create">>
        /\ \E n \in DOMAIN fs : fs[n] # r

\* C8: a feed response lists every Post row and only those, once each, newest
\* first: of two adjacent entries the first is no older than the second.
C8_FeedIsAllPostsNewestFirst ==
    \A u \in Users : \A resp \in get_feeds(posts, u) :
        /\ resp.status = 200
        /\ Len(resp.posts) = Cardinality(posts)
        /\ FeedIds(resp) = { StrUUID(i) : i \in Ids(posts) }
        /\ \A i \in 1..Len(resp.posts) :
             \E p \in posts :
               /\ resp.posts[i].id = StrUUID(p.id)
               /\ resp.posts[i].caption = p.caption
               /\ resp.posts[i].url = p.url
               /\ resp.posts[i].file_type = p.file_type
               /\ resp.posts[i].file_name = p.file_name
               /\ resp.posts[i].created_at = p.created_at
        /\ \A i \in 1..(Len(resp.posts) - 1) :
             resp.posts[i].created_at >= resp.posts[i + 1].created_at

\* a feed request has answered with two posts of different creation times
C8_Witness ==
    \E r \in Reqs :
        /\ req[r].kind = "feed"
        /\ req[r].pc = "done"
        /\ Len(req[r].response.posts) = 2
        /\ req[r].response.posts[1].created_at > req[r].response.posts[2].created_at

\* C9: in every feed response an entry's is_owner is true exactly when the
\* post's owner is the caller.
C9_IsOwnerIffCaller ==
    \A u \in Users : \A resp \in get_feeds(posts, u) :
        \A i \in 1..Len(resp.posts) : \A p \in posts :
            resp.posts[i].id = StrUUID(p.id)
            => (resp.posts[i].is_owner <=> (p.user_id = u))

\* a feed request has answered with one post of the caller and one of another user
C9_Witness ==
    \E r \in Reqs :
        /\ req[r].kind = "feed"
        /\ req[r].pc = "done"
        /\ \E i, j \in 1..Len(req[r].response.posts) :
             req[r].response.posts[i].is_owner /\ ~req[r].response.posts[j].is_owner

\* C10: a Post row never changes once created; a row leaves the table only in
\* the commit of a delete request made by its owner; a row enters it only in
\* the commit of an upload; feed requests and steps that end in a failure
\* leave the table as it was.
C10_PostsImmutable ==
    [][/\ \A p \in posts : \A q \in posts' : q.id = p.id => q = p
       /\ \A p \in posts :
            p \notin posts'
            => \E r \in Reqs :
                 /\ DeleteCommit(r)
                 /\ req[r].kind = "delete"
                 /\ req[r].post = p
                 /\ req[r].user = p.user_id
       /\ \A q \in posts' :
            q \notin posts
            => \E r \in Reqs : Commit(r) /\ req[r].kind = "upload" /\ req'[r].post = q
       /\ \A r \in Reqs :
            (Acts(r) /\ (req'[r].kind = "feed" \/ Failed(req'[r])))
            => posts' = posts]_vars

\* the owner's delete is about to commit while another user's post is in the table
C10_Witness ==
    \E r \in Reqs :
        /\ req[r].kind = "delete"
        /\ req[r].pc = "delete"
        /\ req[r].post \in posts
        /\ \E p \in posts : p.user_id # req[r].user

====
